---- MODULE Spec2Model ----
(***************************************************************************)
(* A model of lilac (src/lilac.py): the path matcher (Route._compile,      *)
(* Route.matches), the route table (Router), the request/response model    *)
(* (Request, Response, HTTPError) and the ASGI entry call (Lilac.__call__) *)
(* with its middleware chain and dispatcher.                               *)
(*                                                                         *)
(* Representation.  A Python str that the code indexes (route templates,   *)
(* request paths) is a sequence of one-character strings.  Other text is a *)
(* TLA+ string.  A bytes object is the record [b |-> text].  Python values *)
(* that the code inspects with isinstance are tagged records [t, v].       *)
(* Handlers, middlewares and the transport are callables the core does not *)
(* own: what they do when called is drawn by \E at the call.               *)
(*                                                                         *)
(* Specifications.  Spec: registration and entry calls, one at a time.     *)
(* LookupSpec: Router.add and Router.find over all short templates and     *)
(* paths.  RequestSpec: Request.headers and Request.query_params over      *)
(* bounded scopes.  BodySpec, BodyLiveSpec: Request.body and Request.json  *)
(* called by two callers that may overlap.                                 *)
(***************************************************************************)
EXTENDS Integers, Sequences, FiniteSets, TLC

(***************************************************************************)
(* Bounds of the model.                                                    *)
(***************************************************************************)
MaxRoutes == 2
MaxMiddleware == 2
MaxSharedUses == 2
MaxReceives == 2
MaxTemplateLen == 4
MaxPathLen == 3
MaxHeaders == 2
MaxQueryLen == 4

(***************************************************************************)
(* Small helpers on sequences.                                             *)
(***************************************************************************)
RECURSIVE SeqsUpTo(_, _)
SeqsUpTo(S, n) ==
    IF n = 0 THEN {<<>>}
    ELSE LET shorter == SeqsUpTo(S, n - 1)
         IN  shorter \cup {Append(s, c) : s \in {t \in shorter : Len(t) = n - 1}, c \in S}

Range(s) == {s[i] : i \in 1..Len(s)}

\* Python's str.find(ch, start) on 1-based positions: the first position >= i
\* holding ch, 0 when there is none (Python's -1).
Find(path, ch, i) ==
    LET hits == {j \in i..Len(path) : path[j] = ch}
    IN  IF hits = {} THEN 0 ELSE CHOOSE j \in hits : \A k \in hits : j <= k

(***************************************************************************)
(* str.upper() on the method names of the model.                           *)
(***************************************************************************)
Upper(m) ==
    CASE m = "get" -> "GET"
      [] m = "post" -> "POST"
      [] OTHER -> m

(***************************************************************************)
(* Route._compile: the template scanned left to right into the parameter   *)
(* names and the regular expression, kept as its tokens between "^" and    *)
(* "$": [k |-> "lit", v |-> c] for re.escape(c), [k |-> "grp", v |-> name] *)
(* for (?P<name>[^/]+).  err is "ValueError" for a "{" with no later "}",  *)
(* and "re.error" when re.compile rejects the expression: a group name     *)
(* that is no identifier, or a group name used twice.                      *)
(***************************************************************************)
Letters == {"a", "b", "x", "y"}

IsIdentifier(name) == name # <<>> /\ \A i \in 1..Len(name) : name[i] \in Letters

NoDuplicates(names) ==
    \A i, j \in 1..Len(names) : names[i] = names[j] => i = j

ReCompileOk(names) ==
    /\ \A i \in 1..Len(names) : IsIdentifier(names[i])
    /\ NoDuplicates(names)

RECURSIVE CompileFrom(_, _, _, _)
CompileFrom(path, i, names, toks) ==
    IF i > Len(path)
    THEN IF ReCompileOk(names)
         THEN [err |-> "none", param_names |-> names, regex |-> toks]
         ELSE [err |-> "re.error", param_names |-> <<>>, regex |-> <<>>]
    ELSE IF path[i] = "{"
         THEN LET j == Find(path, "}", i)
              IN  IF j = 0
                  THEN [err |-> "ValueError", param_names |-> <<>>, regex |-> <<>>]
                  ELSE LET name == SubSeq(path, i + 1, j - 1)
                       IN  CompileFrom(path, j + 1, Append(names, name),
                                       Append(toks, [k |-> "grp", v |-> name]))
         ELSE CompileFrom(path, i + 1, names,
                          Append(toks, [k |-> "lit", v |-> <<path[i]>>]))

Compile(path) == CompileFrom(path, 1, <<>>, <<>>)

(***************************************************************************)
(* regex.match(path): Python's backtracking matcher on the tokens.  A      *)
(* group is greedy: it first takes every character up to the next "/" and  *)
(* gives characters back one at a time.  The closing "$" matches at the    *)
(* end of the string and also just before a newline that ends the string.  *)
(* The result is the sequence of captured substrings, or NoMatch.          *)
(***************************************************************************)
NoMatch == [ok |-> FALSE, caps |-> <<>>]

DollarAt(path, j) ==
    \/ j = Len(path) + 1
    \/ j = Len(path) /\ path[j] = "\n"

\* The length of the longest run of characters other than "/" from position j.
RECURSIVE RunLen(_, _)
RunLen(path, j) ==
    IF j > Len(path) \/ path[j] = "/" THEN 0 ELSE 1 + RunLen(path, j + 1)

RECURSIVE MatchAt(_, _, _, _)
RECURSIVE TryGroup(_, _, _, _, _)
MatchAt(toks, i, path, j) ==
    IF i > Len(toks)
    THEN IF DollarAt(path, j) THEN [ok |-> TRUE, caps |-> <<>>] ELSE NoMatch
    ELSE IF toks[i].k = "lit"
         THEN IF j <= Len(path) /\ <<path[j]>> = toks[i].v
              THEN MatchAt(toks, i + 1, path, j + 1)
              ELSE NoMatch
         ELSE TryGroup(toks, i, path, j, RunLen(path, j))

TryGroup(toks, i, path, j, n) ==
    IF n < 1 THEN NoMatch
    ELSE LET rest == MatchAt(toks, i + 1, path, j + n)
         IN  IF ~rest.ok
             THEN TryGroup(toks, i, path, j, n - 1)
             ELSE [ok |-> TRUE, caps |-> <<SubSeq(path, j, j + n - 1)>> \o rest.caps]

RegexMatch(regex, path) == MatchAt(regex, 1, path, 1)

\* m.groupdict(): the mapping from each group name to what it captured.
GroupDict(names, caps) ==
    [n \in Range(names) |-> caps[CHOOSE i \in 1..Len(names) : names[i] = n]]

(***************************************************************************)
(* Route.matches: None unless the upper-cased method is the route's and    *)
(* the regex matches the path; else the groupdict.  none says which.       *)
(***************************************************************************)
NoParams == [none |-> TRUE, params |-> <<>>]

\* Matches without the method test.
MatchesPathOnly(route, method, path) ==
    LET m == RegexMatch(route.regex, path)
    IN  IF ~m.ok
        THEN NoParams
        ELSE [none |-> FALSE, params |-> GroupDict(route.param_names, m.caps)]

Matches(route, method, path) ==
    IF Upper(method) # route.method
    THEN NoParams
    ELSE LET m == RegexMatch(route.regex, path)
         IN  IF ~m.ok
             THEN NoParams
             ELSE [none |-> FALSE, params |-> GroupDict(route.param_names, m.caps)]

(***************************************************************************)
(* Router.find: the first route, in list order, whose matches is not None. *)
(* idx is the route's position, 0 for (None, {}).                          *)
(***************************************************************************)
RECURSIVE FindFrom(_, _, _, _)
FindFrom(rs, i, method, path) ==
    IF i > Len(rs)
    THEN [idx |-> 0, params |-> <<>>]
    ELSE LET r == Matches(rs[i], method, path)
         IN  IF ~r.none
             THEN [idx |-> i, params |-> r.params]
             ELSE FindFrom(rs, i + 1, method, path)

\* Router.find returning the last matching route instead of the first.
RECURSIVE FindLastFrom(_, _, _, _)
FindLastFrom(rs, i, method, path) ==
    IF i < 1
    THEN [idx |-> 0, params |-> <<>>]
    ELSE LET r == Matches(rs[i], method, path)
         IN  IF ~r.none
             THEN [idx |-> i, params |-> r.params]
             ELSE FindLastFrom(rs, i - 1, method, path)

RouterFindLast(rs, method, path) == FindLastFrom(rs, Len(rs), method, path)

RouterFind(rs, method, path) == FindFrom(rs, 1, method, path)

(***************************************************************************)
(* Python values.  [t |-> "none"], "int", "str", "bytes", "list" (v a      *)
(* sequence of values), "dict" (v a sequence of <<key, value>> in          *)
(* insertion order) and "Response" (v the Response's fields).              *)
(***************************************************************************)
PyNone == [t |-> "none", v |-> <<>>]
PyInt(n) == [t |-> "int", v |-> n]
PyStr(s) == [t |-> "str", v |-> s]
PyBytes(s) == [t |-> "bytes", v |-> s]
PyList(xs) == [t |-> "list", v |-> xs]
PyDict(items) == [t |-> "dict", v |-> items]

\* str.encode() and bytes.decode() between text and the bytes object holding it.
Encode(s) == [b |-> s]
Decode(bs) == bs.b

(***************************************************************************)
(* json.dumps with its default separators ", " and ": ".  JsonSerializable *)
(* is false where json.dumps raises TypeError.                             *)
(***************************************************************************)
RECURSIVE JsonSerializable(_)
JsonSerializable(x) ==
    CASE x.t \in {"none", "int", "str"} -> TRUE
      [] x.t = "list" -> \A i \in 1..Len(x.v) : JsonSerializable(x.v[i])
      [] x.t = "dict" -> \A i \in 1..Len(x.v) : JsonSerializable(x.v[i][2])
      [] OTHER -> FALSE

RECURSIVE JsonDumps(_)
RECURSIVE JoinItems(_, _, _)
JoinItems(xs, i, isDict) ==
    IF i > Len(xs) THEN ""
    ELSE LET one == IF isDict
                    THEN "\"" \o xs[i][1] \o "\": " \o JsonDumps(xs[i][2])
                    ELSE JsonDumps(xs[i])
         IN  (IF i > 1 THEN ", " ELSE "") \o one \o JoinItems(xs, i + 1, isDict)

JsonDumps(x) ==
    CASE x.t = "none" -> "null"
      [] x.t = "int" -> ToString(x.v)
      [] x.t = "str" -> "\"" \o x.v \o "\""
      [] x.t = "list" -> "[" \o JoinItems(x.v, 1, FALSE) \o "]"
      [] x.t = "dict" -> "{" \o JoinItems(x.v, 1, TRUE) \o "}"

(***************************************************************************)
(* json.loads on the body texts of the model: the two documents it         *)
(* accepts; on any other text it raises JSONDecodeError (ok is FALSE).     *)
(***************************************************************************)
JsonLoads(text) ==
    CASE text = "{\"k\": 1}" -> [ok |-> TRUE, val |-> PyDict(<<<<"k", PyInt(1)>>>>)]
      [] text = "[1, 2]" -> [ok |-> TRUE, val |-> PyList(<<PyInt(1), PyInt(2)>>)]
      [] OTHER -> [ok |-> FALSE, val |-> PyNone]

(***************************************************************************)
(* Response.__init__.  headers is the caller's list (<<>> also stands for  *)
(* None) and media_type "" stands for None.  "headers or []" keeps the     *)
(* caller's own list object when it is non-empty, so every append below is *)
(* an append to the caller's list too: aliased says so.  raised is the     *)
(* TypeError of line 96 or of json.dumps.                                  *)
(***************************************************************************)
JsonContentType == <<"content-type", "application/json; charset=utf-8">>
TextContentType == "text/plain; charset=utf-8"

HeadersOrNew(headers) == [list |-> headers, aliased |-> headers # <<>>]

\* Response.__init__ without the append of line 83.
ResponseInitNoJsonHeader(content, status, headers, media_type) ==
    LET own == HeadersOrNew(headers)
        built(hs, bytes) ==
            [raised |-> FALSE, aliased |-> own.aliased,
             resp |-> [status |-> status, headers |-> hs, body_bytes |-> bytes]]
        failed ==
            [raised |-> TRUE, aliased |-> own.aliased,
             resp |-> [status |-> status, headers |-> own.list, body_bytes |-> Encode("")]]
        withMedia == IF media_type # ""
                     THEN Append(own.list, <<"content-type", media_type>>)
                     ELSE own.list
    IN  CASE content.t \in {"dict", "list"} ->
               IF JsonSerializable(content)
               THEN built(own.list, Encode(JsonDumps(content)))
               ELSE failed
          [] content.t = "str" ->
               built(Append(own.list,
                            <<"content-type",
                              IF media_type # "" THEN media_type ELSE TextContentType>>),
                     Encode(content.v))
          [] content.t = "bytes" -> built(withMedia, Encode(content.v))
          [] content.t = "none" -> built(withMedia, Encode(""))
          [] OTHER -> failed

ResponseInit(content, status, headers, media_type) ==
    LET own == HeadersOrNew(headers)
        built(hs, bytes) ==
            [raised |-> FALSE, aliased |-> own.aliased,
             resp |-> [status |-> status, headers |-> hs, body_bytes |-> bytes]]
        failed ==
            [raised |-> TRUE, aliased |-> own.aliased,
             resp |-> [status |-> status, headers |-> own.list, body_bytes |-> Encode("")]]
        withMedia == IF media_type # ""
                     THEN Append(own.list, <<"content-type", media_type>>)
                     ELSE own.list
    IN  CASE content.t \in {"dict", "list"} ->
               IF JsonSerializable(content)
               THEN built(Append(own.list, JsonContentType), Encode(JsonDumps(content)))
               ELSE failed
          [] content.t = "str" ->
               built(Append(own.list,
                            <<"content-type",
                              IF media_type # "" THEN media_type ELSE TextContentType>>),
                     Encode(content.v))
          [] content.t = "bytes" -> built(withMedia, Encode(content.v))
          [] content.t = "none" -> built(withMedia, Encode(""))
          [] OTHER -> failed

\* Response.json(data, status, headers): cls(data, status=status, headers=headers or []).
ResponseJson(data, status, headers) ==
    ResponseInit(data, status, HeadersOrNew(headers).list, "")

(***************************************************************************)
(* HTTPError.__init__: detail or f"HTTP {status}".                         *)
(***************************************************************************)
\* HTTPError without the default detail.
HTTPErrorNoDefault(status, detail) ==
    [cls |-> "HTTPError", status |-> status, detail |-> detail]

HTTPError(status, detail) ==
    [cls |-> "HTTPError", status |-> status,
     detail |-> IF detail # "" THEN detail ELSE "HTTP " \o ToString(status)]

\* Other things a handler can raise: an Exception that is no HTTPError, and a
\* BaseException that is no Exception (asyncio.CancelledError, SystemExit,
\* KeyboardInterrupt), which "except Exception" does not catch.
OtherException(detail) == [cls |-> "Exception", status |-> 0, detail |-> detail]
BaseExceptionOnly(detail) == [cls |-> "BaseException", status |-> 0, detail |-> detail]

(***************************************************************************)
(* Lines 181-188 of Lilac.__call__.endpoint: what the try statement makes  *)
(* of the handler's outcome hres, a return value or a raised exception.    *)
(* escaped: nothing caught it and it leaves endpoint.                      *)
(***************************************************************************)
ExceptionClasses ==
    {"Exception", "HTTPError", "TypeError", "JSONDecodeError", "OSError", "KeyError"}

IsException(e) == e.cls \in ExceptionClasses

TypeError == [cls |-> "TypeError", status |-> 0, detail |-> "Unsupported content type for Response"]

NoException == [cls |-> "", status |-> 0, detail |-> ""]

NoResponse == [status |-> 0, headers |-> <<>>, body_bytes |-> Encode("")]

InternalServerError ==
    ResponseJson(PyDict(<<<<"detail", PyStr("Internal Server Error")>>>>), 500, <<>>).resp

\* The except clauses answering 500 with the failure's own detail.
ExceptClausesLeakDetail(e) ==
    IF e.cls = "HTTPError"
    THEN LET r == ResponseJson(PyDict(<<<<"detail", PyStr(e.detail)>>>>), e.status, <<>>)
         IN  [escaped |-> r.raised, exc |-> IF r.raised THEN TypeError ELSE NoException,
              resp |-> r.resp]
    ELSE IF IsException(e)
         THEN [escaped |-> FALSE, exc |-> NoException,
               resp |-> ResponseJson(PyDict(<<<<"detail", PyStr(e.detail)>>>>), 500, <<>>).resp]
         ELSE [escaped |-> TRUE, exc |-> e, resp |-> NoResponse]

\* The except clauses, tried in order on an exception raised in the try block.
ExceptClauses(e) ==
    IF e.cls = "HTTPError"
    THEN LET r == ResponseJson(PyDict(<<<<"detail", PyStr(e.detail)>>>>), e.status, <<>>)
         IN  [escaped |-> r.raised, exc |-> IF r.raised THEN TypeError ELSE NoException,
              resp |-> r.resp]
    ELSE IF IsException(e)
         THEN [escaped |-> FALSE, exc |-> NoException, resp |-> InternalServerError]
         ELSE [escaped |-> TRUE, exc |-> e, resp |-> NoResponse]

\* endpoint with the wrapping of line 184 outside the try statement: the
\* TypeError of Response.__init__ is not caught.
EndpointResponseWrapOutsideTry(hres) ==
    IF hres.kind = "raise"
    THEN ExceptClauses(hres.exc)
    ELSE IF hres.val.t = "Response"
         THEN [escaped |-> FALSE, exc |-> NoException, resp |-> hres.val.v]
         ELSE LET r == ResponseInit(hres.val, 200, <<>>, "")
              IN  IF r.raised
                  THEN [escaped |-> TRUE, exc |-> TypeError, resp |-> NoResponse]
                  ELSE [escaped |-> FALSE, exc |-> NoException, resp |-> r.resp]

EndpointResponse(hres) ==
    IF hres.kind = "raise"
    THEN ExceptClauses(hres.exc)
    ELSE IF hres.val.t = "Response"
         THEN [escaped |-> FALSE, exc |-> NoException, resp |-> hres.val.v]
         ELSE LET r == ResponseInit(hres.val, 200, <<>>, "")
              IN  IF r.raised
                  THEN ExceptClauses(TypeError)
                  ELSE [escaped |-> FALSE, exc |-> NoException, resp |-> r.resp]

(***************************************************************************)
(* The two messages of lines 189-191 (and of lines 171-172).               *)
(***************************************************************************)
EncodeHeaders(headers) ==
    [i \in 1..Len(headers) |-> <<Encode(headers[i][1]), Encode(headers[i][2])>>]

StartMessage(r) ==
    [type |-> "http.response.start", status |-> r.status, headers |-> EncodeHeaders(r.headers)]

BodyMessage(r) == [type |-> "http.response.body", body |-> r.body_bytes]

NotFoundStart == [type |-> "http.response.start", status |-> 404, headers |-> <<>>]

NotFoundBody == [type |-> "http.response.body", body |-> Encode("Not Found")]

(***************************************************************************)
(* Lines 192-194: app = endpoint; for mw in reversed(middleware):          *)
(* app = mw(app).  The composed app is kept as the sequence of its         *)
(* wrappers from the outermost inwards; endpoint is inside the last.       *)
(***************************************************************************)
\* ComposeChain without reversed(): the last-registered middleware outermost.
RECURSIVE WrapForward(_, _, _)
WrapForward(mws, i, app) ==
    IF i > Len(mws) THEN app ELSE WrapForward(mws, i + 1, <<mws[i]>> \o app)

ComposeForward(mws) == WrapForward(mws, 1, <<>>)

RECURSIVE WrapReversed(_, _, _)
WrapReversed(mws, i, app) ==
    IF i < 1 THEN app ELSE WrapReversed(mws, i - 1, <<mws[i]>> \o app)

ComposeChain(mws) == WrapReversed(mws, Len(mws), <<>>)

(***************************************************************************)
(* Handlers.  What a handler does when called is the caller's program; the *)
(* programs of the model are the three handlers of src/lilac.py (hello,    *)
(* echo, health) and handlers that return or raise the other things the    *)
(* dispatcher tells apart.  Programs that do not await run in one step.    *)
(***************************************************************************)
SimplePrograms ==
    {"health", "hello", "dict", "list", "unsupported", "http_error", "http_error_default",
     "exception", "cancelled", "shared_headers"}

BodyPrograms == {"echo", "body_twice"}

Return(val) == [kind |-> "return", val |-> val, exc |-> NoException]
Raise(e) == [kind |-> "raise", val |-> PyNone, exc |-> e]
ResponseValue(r) == [t |-> "Response", v |-> r]

\* The header list a handler keeps at module level and passes to every
\* Response it builds ("shared_headers").
SharedHeaders0 == <<<<"x-app", "lilac">>>>

RunSimple(p, shared) ==
    CASE p = "health" ->
           [hres |-> Return(ResponseValue(ResponseInit(PyStr("ok"), 200, <<>>, "").resp)),
            shared |-> shared]
      [] p = "hello" ->
           [hres |-> Return(ResponseValue(
                        ResponseJson(PyDict(<<<<"message", PyStr("Hello, Ada")>>>>),
                                     200, <<>>).resp)),
            shared |-> shared]
      [] p = "dict" -> [hres |-> Return(PyDict(<<<<"k", PyInt(1)>>>>)), shared |-> shared]
      [] p = "list" -> [hres |-> Return(PyList(<<PyInt(1), PyInt(2)>>)), shared |-> shared]
      [] p = "unsupported" -> [hres |-> Return(PyInt(7)), shared |-> shared]
      [] p = "http_error" -> [hres |-> Raise(HTTPError(404, "gone")), shared |-> shared]
      [] p = "http_error_default" -> [hres |-> Raise(HTTPError(400, "")), shared |-> shared]
      [] p = "exception" -> [hres |-> Raise(OtherException("secret")), shared |-> shared]
      [] p = "cancelled" -> [hres |-> Raise(BaseExceptionOnly("cancelled")), shared |-> shared]
      [] p = "shared_headers" ->
           LET r == ResponseInit(PyStr("ok"), 200, shared, "")
           IN  [hres |-> Return(ResponseValue(r.resp)),
                shared |-> IF r.aliased THEN r.resp.headers ELSE shared]

(***************************************************************************)
(* The transport's inbound messages: what receive() can return.  keys are  *)
(* the keys the message carries besides type; msg.get(key, default) is     *)
(* MsgGet.                                                                 *)
(***************************************************************************)
ChunkTexts == {"{\"k\": 1}", "[1, 2]"}

InboundMessages ==
    {[type |-> "http.request", keys |-> {"body", "more_body"}, body |-> Encode(c), more_body |-> m] :
        c \in ChunkTexts, m \in BOOLEAN}
    \cup {[type |-> "http.request", keys |-> {"body"}, body |-> Encode("[1, 2]"), more_body |-> FALSE],
          [type |-> "http.request", keys |-> {}, body |-> Encode(""), more_body |-> FALSE],
          [type |-> "http.disconnect", keys |-> {}, body |-> Encode(""), more_body |-> FALSE]}

MsgGet(msg, key, default) == IF key \in msg.keys THEN msg[key] ELSE default

\* b"".join(chunks)
RECURSIVE JoinText(_, _)
JoinText(chunks, i) ==
    IF i > Len(chunks) THEN "" ELSE Decode(chunks[i]) \o JoinText(chunks, i + 1)

\* b"".join(chunks) with the chunks taken last to first.
RECURSIVE JoinTextReversed(_, _)
JoinTextReversed(chunks, i) ==
    IF i < 1 THEN "" ELSE Decode(chunks[i]) \o JoinTextReversed(chunks, i - 1)

JoinBytesReversed(chunks) == Encode(JoinTextReversed(chunks, Len(chunks)))

JoinBytes(chunks) == Encode(JoinText(chunks, 1))

\* Request._body: None, or the cached bytes.
BodyNone == [none |-> TRUE, val |-> Encode("")]
BodyCached(bs) == [none |-> FALSE, val |-> bs]

\* MustDrain with the cache tested for truth ("if not self._body") instead of
\* for None.
MustDrainWhenFalsy(cache) == cache.none \/ Decode(cache.val) = ""

\* Line 49: the test that decides whether body() drains the stream.
MustDrain(cache) == cache.none

(***************************************************************************)
(* Request.json after body() has returned b (lines 66-68), and the echo    *)
(* handler of src/lilac.py on its result (lines 228-231).                  *)
(***************************************************************************)
RequestJson(b) ==
    IF Decode(b) = ""
    THEN [raised |-> FALSE, val |-> PyNone]
    ELSE LET r == JsonLoads(Decode(b))
         IN  [raised |-> ~r.ok, val |-> r.val]

JSONDecodeError == [cls |-> "JSONDecodeError", status |-> 0, detail |-> "Expecting value"]

EchoAfterJson(b) ==
    LET data == RequestJson(b)
    IN  IF data.raised THEN Raise(JSONDecodeError)
        ELSE IF data.val.t # "dict" THEN Raise(HTTPError(400, "Expected JSON object"))
        ELSE Return(PyDict(<<<<"you_sent", data.val>>>>))

(***************************************************************************)
(* State.                                                                  *)
(*   routes, middleware   Router.routes and Lilac._middleware              *)
(*   regErr               the last registration: its template, what it     *)
(*                        raised ("none": nothing) and the route table it  *)
(*                        found                                            *)
(*   sharedHdrs           the header list the "shared_headers" handler owns*)
(* and, for the entry call in progress:                                    *)
(*   pc                   where the call is                                *)
(*   scope                the connection's scope                           *)
(*   chain, stage         the composed app and the stage being entered or  *)
(*                        returning                                        *)
(*   found, prog, hpc, hres, resp, exc   locals of endpoint and handler    *)
(*   body_, chunks, nrecv, bret, first   Request._body, the locals of      *)
(*                        body(), the receive calls made, what body()      *)
(*                        returned last, and what "body_twice" saw first   *)
(*   sent                 the messages passed to send, in order            *)
(*   log                  the calls made, in order                         *)
(*   tasks                the callers of body() and json() that one        *)
(*                        handler runs side by side (asyncio.gather), each *)
(*                        with its own locals of body()                    *)
(***************************************************************************)
VARIABLES routes, middleware, regErr, sharedHdrs,
          pc, scope, chain, stage, found, prog, hpc, hres, resp, exc,
          body_, chunks, nrecv, bret, first, sent, log, tasks

appVars == <<routes, middleware>>
callVars == <<pc, scope, chain, stage, found, prog, hpc, hres, resp, exc,
              body_, chunks, nrecv, bret, first, sent, log>>
vars == <<routes, middleware, regErr, sharedHdrs, callVars, tasks>>

NoRegistration == [err |-> "none", path |-> <<>>, before |-> <<>>]
NoScope == [type |-> "", method |-> "", path |-> <<>>]
NoFound == [idx |-> 0, params |-> <<>>]
NoFirst == [val |-> Encode(""), nrecv |-> 0, set |-> FALSE]

\* A caller of body() or json() that has not called yet.
Callers == {1, 2}
NoTask == [pc |-> "start", kind |-> "", chunks |-> <<>>, ret |-> Encode(""),
           out |-> [raised |-> FALSE, val |-> PyNone]]
NoTasks == [t \in Callers |-> NoTask]

CallReset ==
    /\ pc = "idle"
    /\ scope = NoScope
    /\ chain = <<>>
    /\ stage = 0
    /\ found = NoFound
    /\ prog = ""
    /\ hpc = ""
    /\ hres = Return(PyNone)
    /\ resp = NoResponse
    /\ exc = NoException
    /\ body_ = BodyNone
    /\ chunks = <<>>
    /\ nrecv = 0
    /\ bret = Encode("")
    /\ first = NoFirst
    /\ sent = <<>>
    /\ log = <<>>
    /\ tasks = NoTasks

Init ==
    /\ routes = <<>>
    /\ middleware = <<>>
    /\ regErr = NoRegistration
    /\ sharedHdrs = SharedHeaders0
    /\ CallReset

Event(e, id) == [e |-> e, id |-> id]

(***************************************************************************)
(* Registration: Lilac.use, and Lilac.route's decorator -> Router.add ->   *)
(* Route.__init__.  The n-th registered middleware or handler is n.        *)
(***************************************************************************)
\* The (method, template) pairs that the model registers.
Registrations ==
    {<<"GET", <<"/", "a">>>>,
     <<"GET", <<"/", "{", "x", "}">>>>,
     <<"post", <<"/", "a">>>>,
     <<"GET", <<"/", "{", "x">>>>,
     <<"post", <<"/", "{", "x", "}", "{">>>>}

Route(method, path, handler) ==
    LET c == Compile(path)
    IN  [err |-> c.err,
         route |-> [method |-> Upper(method), path |-> path,
                    param_names |-> c.param_names, regex |-> c.regex,
                    handler |-> handler]]

Use ==
    /\ pc = "idle"
    /\ Len(middleware) < MaxMiddleware
    /\ middleware' = Append(middleware, Len(middleware) + 1)
    /\ UNCHANGED <<routes, regErr, sharedHdrs, callVars, tasks>>

\* Add appending the route whatever Route.__init__ did: a template that does
\* not compile is found out when a request is matched against it.
AddDeferringFailure(method, path) ==
    /\ pc = "idle"
    /\ Len(routes) < MaxRoutes
    /\ LET r == Route(method, path, Len(routes) + 1)
       IN  /\ regErr' = [err |-> "none", path |-> path, before |-> routes]
           /\ routes' = Append(routes, r.route)
    /\ UNCHANGED <<middleware, sharedHdrs, callVars, tasks>>

Add(method, path) ==
    /\ pc = "idle"
    /\ Len(routes) < MaxRoutes
    /\ LET r == Route(method, path, Len(routes) + 1)
       IN  /\ regErr' = [err |-> r.err, path |-> path, before |-> routes]
           /\ routes' = IF r.err = "none" THEN Append(routes, r.route) ELSE routes
    /\ UNCHANGED <<middleware, sharedHdrs, callVars, tasks>>

(***************************************************************************)
(* Lilac.__call__, lines 169-173 and 192-195.                              *)
(***************************************************************************)
ReqMethods == {"get", "POST"}
ReqPaths == {<<"/", "a">>, <<"/", "b">>, <<"/">>}

Scopes ==
    {[type |-> "http", method |-> m, path |-> p] : m \in ReqMethods, p \in ReqPaths}
    \cup {[type |-> "websocket", method |-> "", path |-> <<"/", "a">>]}

\* Call without the type guard of line 170: every scope enters the pipeline.
CallWithoutTypeGuard(sc) ==
    /\ pc = "idle"
    /\ scope' = sc
    /\ regErr' = NoRegistration
    /\ chain' = ComposeChain(middleware)
    /\ stage' = 1
    /\ pc' = "app"
    /\ UNCHANGED <<routes, middleware, sharedHdrs, found, prog, hpc, hres, resp, exc,
                   body_, chunks, nrecv, bret, first, sent, log, tasks>>

\* The entry call begins: the type guard of line 170, then the composition.
Call(sc) ==
    /\ pc = "idle"
    /\ scope' = sc
    /\ regErr' = NoRegistration
    /\ IF sc.type # "http"
       THEN /\ pc' = "nonhttp_start"
            /\ UNCHANGED <<chain, stage>>
       ELSE /\ chain' = ComposeChain(middleware)
            /\ stage' = 1
            /\ pc' = "app"
    /\ UNCHANGED <<routes, middleware, sharedHdrs, found, prog, hpc, hres, resp, exc,
                   body_, chunks, nrecv, bret, first, sent, log, tasks>>

NonHttpStart ==
    /\ pc = "nonhttp_start"
    /\ sent' = Append(sent, NotFoundStart)
    /\ log' = Append(log, Event("send", 0))
    /\ pc' = "nonhttp_body"
    /\ UNCHANGED <<routes, middleware, regErr, sharedHdrs, scope, chain, stage, found,
                   prog, hpc, hres, resp, exc, body_, chunks, nrecv, bret, first, tasks>>

NonHttpBody ==
    /\ pc = "nonhttp_body"
    /\ sent' = Append(sent, NotFoundBody)
    /\ log' = Append(log, Event("send", 0))
    /\ pc' = "done"
    /\ UNCHANGED <<routes, middleware, regErr, sharedHdrs, scope, chain, stage, found,
                   prog, hpc, hres, resp, exc, body_, chunks, nrecv, bret, first, tasks>>

(***************************************************************************)
(* A middleware's stage is called.  What it does is its own: it calls the  *)
(* stage it wraps ("next"), returns without calling it ("skip"), or raises.*)
(***************************************************************************)
MiddlewareBehaviours == {"next", "skip", "raise"}

MiddlewareError == [cls |-> "Exception", status |-> 0, detail |-> "middleware"]

\* MiddlewareCall with the core catching what a middleware raises and
\* answering 500 for it.
MiddlewareCallCatching(b) ==
    /\ pc = "app"
    /\ stage <= Len(chain)
    /\ log' = Append(log, Event("enter", chain[stage]))
    /\ CASE b = "next" -> /\ stage' = stage + 1
                          /\ pc' = "app"
                          /\ exc' = exc
                          /\ resp' = resp
         [] b = "skip" -> /\ stage' = stage
                          /\ pc' = "return"
                          /\ exc' = exc
                          /\ resp' = resp
         [] b = "raise" -> /\ stage' = stage
                           /\ pc' = "send_start"
                           /\ exc' = MiddlewareError
                           /\ resp' = InternalServerError
    /\ UNCHANGED <<routes, middleware, regErr, sharedHdrs, scope, chain, found, prog,
                   hpc, hres, body_, chunks, nrecv, bret, first, sent, tasks>>

MiddlewareCall(b) ==
    /\ pc = "app"
    /\ stage <= Len(chain)
    /\ log' = Append(log, Event("enter", chain[stage]))
    /\ CASE b = "next" -> /\ stage' = stage + 1
                          /\ pc' = "app"
                          /\ exc' = exc
         [] b = "skip" -> /\ stage' = stage
                          /\ pc' = "return"
                          /\ exc' = exc
         [] b = "raise" -> /\ stage' = stage
                           /\ pc' = "raised"
                           /\ exc' = MiddlewareError
    /\ UNCHANGED <<routes, middleware, regErr, sharedHdrs, scope, chain, found, prog,
                   hpc, hres, resp, body_, chunks, nrecv, bret, first, sent, tasks>>

\* The stage a middleware wrapped has returned: the middleware returns too.
MiddlewareReturn ==
    /\ pc = "return"
    /\ stage >= 1
    /\ log' = Append(log, Event("exit", chain[stage]))
    /\ stage' = stage - 1
    /\ pc' = IF stage = 1 THEN "done" ELSE "return"
    /\ UNCHANGED <<routes, middleware, regErr, sharedHdrs, scope, chain, found, prog,
                   hpc, hres, resp, exc, body_, chunks, nrecv, bret, first, sent, tasks>>

(***************************************************************************)
(* endpoint, lines 176-179: the Request, the route lookup, the 404.        *)
(***************************************************************************)
EndpointFind ==
    /\ pc = "app"
    /\ stage = Len(chain) + 1
    /\ body_' = BodyNone
    /\ LET f == RouterFind(routes, Upper(scope.method), scope.path)
       IN  /\ found' = f
           /\ IF f.idx = 0
              THEN /\ resp' = ResponseInit(PyStr("Not Found"), 404, <<>>, "").resp
                   /\ pc' = "send_start"
              ELSE /\ resp' = resp
                   /\ pc' = "call"
    /\ log' = Append(log, Event("find", 0))
    /\ UNCHANGED <<routes, middleware, regErr, sharedHdrs, scope, chain, stage, prog,
                   hpc, hres, exc, chunks, nrecv, bret, first, sent, tasks>>

(***************************************************************************)
(* Line 182: the handler of the found route is called.  A program that     *)
(* does not await has returned or raised when the step ends; echo and      *)
(* body_twice start their first body() call.                               *)
(***************************************************************************)
CallSimpleHandler(p) ==
    /\ pc = "call"
    \* the model's bound: the list that "shared_headers" passes on grows with
    \* every use
    /\ p = "shared_headers" => Len(sharedHdrs) < Len(SharedHeaders0) + MaxSharedUses
    /\ prog' = p
    /\ log' = Append(log, Event("invoke", routes[found.idx].handler))
    /\ LET r == RunSimple(p, sharedHdrs)
       IN  /\ hres' = r.hres
           /\ sharedHdrs' = r.shared
    /\ pc' = "returned"
    /\ UNCHANGED <<routes, middleware, regErr, scope, chain, stage, found, hpc, resp,
                   exc, body_, chunks, nrecv, bret, first, sent, tasks>>

CallBodyHandler(p) ==
    /\ pc = "call"
    /\ prog' = p
    /\ log' = Append(log, Event("invoke", routes[found.idx].handler))
    /\ hpc' = IF p = "echo" THEN "echo_json" ELSE "twice_first"
    /\ pc' = "body"
    /\ UNCHANGED <<routes, middleware, regErr, sharedHdrs, scope, chain, stage, found,
                   hres, resp, exc, body_, chunks, nrecv, bret, first, sent, tasks>>

(***************************************************************************)
(* Request.body.  BodyCall is lines 49-52 and 62: drain only when nothing  *)
(* is cached.  Receive is one turn of the loop, lines 54-61.               *)
(***************************************************************************)
BodyCall ==
    /\ pc = "body"
    /\ IF MustDrain(body_)
       THEN /\ chunks' = <<>>
            /\ pc' = "receive"
            /\ bret' = bret
       ELSE /\ chunks' = chunks
            /\ pc' = "resume"
            /\ bret' = body_.val
    /\ UNCHANGED <<routes, middleware, regErr, sharedHdrs, scope, chain, stage, found,
                   prog, hpc, hres, resp, exc, body_, nrecv, first, sent, log, tasks>>

Receive(msg) ==
    /\ pc = "receive"
    \* the model's bound: a message announcing more body is delivered only
    \* while another receive call fits under MaxReceives
    /\ MsgGet(msg, "more_body", FALSE) => nrecv + 1 < MaxReceives
    /\ nrecv' = nrecv + 1
    /\ LET isBody == msg.type = "http.request"
           chunks1 == IF isBody THEN Append(chunks, MsgGet(msg, "body", Encode(""))) ELSE chunks
           more == IF isBody THEN MsgGet(msg, "more_body", FALSE) ELSE FALSE
       IN  /\ chunks' = chunks1
           /\ IF more
              THEN /\ pc' = "receive"
                   /\ UNCHANGED <<body_, bret>>
              ELSE /\ body_' = BodyCached(JoinBytes(chunks1))
                   /\ bret' = JoinBytes(chunks1)
                   /\ pc' = "resume"
    /\ UNCHANGED <<routes, middleware, regErr, sharedHdrs, scope, chain, stage, found,
                   prog, hpc, hres, resp, exc, first, sent, log, tasks>>

\* receive() raises: the exception leaves body() and the handler.
ReceiveErrors ==
    {[cls |-> "OSError", status |-> 0, detail |-> "connection reset"],
     BaseExceptionOnly("cancelled")}

ReceiveRaises(e) ==
    /\ pc = "receive"
    /\ nrecv' = nrecv + 1
    /\ hres' = Raise(e)
    /\ pc' = "returned"
    /\ UNCHANGED <<routes, middleware, regErr, sharedHdrs, scope, chain, stage, found,
                   prog, hpc, resp, exc, body_, chunks, bret, first, sent, log, tasks>>

(***************************************************************************)
(* The handler goes on after body() has returned bret.                     *)
(***************************************************************************)
Resume ==
    /\ pc = "resume"
    /\ CASE hpc = "echo_json" ->
              /\ hres' = EchoAfterJson(bret)
              /\ pc' = "returned"
              /\ UNCHANGED <<hpc, first>>
         [] hpc = "twice_first" ->
              /\ first' = [val |-> bret, nrecv |-> nrecv, set |-> TRUE]
              /\ hpc' = "twice_second"
              /\ pc' = "body"
              /\ UNCHANGED hres
         [] hpc = "twice_second" ->
              /\ hres' = Return(ResponseValue(
                            ResponseInit(PyBytes(Decode(bret)), 200, <<>>, "").resp))
              /\ pc' = "returned"
              /\ UNCHANGED <<hpc, first>>
    /\ UNCHANGED <<routes, middleware, regErr, sharedHdrs, scope, chain, stage, found,
                   prog, resp, exc, body_, chunks, nrecv, bret, sent, log, tasks>>

(***************************************************************************)
(* Lines 183-188, then the two sends of lines 189-191.                     *)
(***************************************************************************)
\* BuildResponse calling the handler a second time when it raised.
BuildResponseRetrying ==
    /\ pc = "returned"
    /\ LET r == EndpointResponse(hres)
           retry == hres.kind = "raise" /\ Len(SelectSeq(log, LAMBDA ev : ev.e = "invoke")) < 2
       IN  IF retry
           THEN /\ pc' = "call"
                /\ UNCHANGED <<resp, exc>>
           ELSE IF r.escaped
                THEN /\ exc' = r.exc
                     /\ pc' = "raised"
                     /\ resp' = resp
                ELSE /\ resp' = r.resp
                     /\ pc' = "send_start"
                     /\ exc' = exc
    /\ UNCHANGED <<routes, middleware, regErr, sharedHdrs, scope, chain, stage, found,
                   prog, hpc, hres, body_, chunks, nrecv, bret, first, sent, log, tasks>>

BuildResponse ==
    /\ pc = "returned"
    /\ LET r == EndpointResponse(hres)
       IN  IF r.escaped
           THEN /\ exc' = r.exc
                /\ pc' = "raised"
                /\ resp' = resp
           ELSE /\ resp' = r.resp
                /\ pc' = "send_start"
                /\ exc' = exc
    /\ UNCHANGED <<routes, middleware, regErr, sharedHdrs, scope, chain, stage, found,
                   prog, hpc, hres, body_, chunks, nrecv, bret, first, sent, log, tasks>>

SendStart ==
    /\ pc = "send_start"
    /\ sent' = Append(sent, StartMessage(resp))
    /\ log' = Append(log, Event("send", 0))
    /\ pc' = "send_body"
    /\ UNCHANGED <<routes, middleware, regErr, sharedHdrs, scope, chain, stage, found,
                   prog, hpc, hres, resp, exc, body_, chunks, nrecv, bret, first, tasks>>

SendBody ==
    /\ pc = "send_body"
    /\ sent' = Append(sent, BodyMessage(resp))
    /\ log' = Append(log, Event("send", 0))
    /\ stage' = Len(chain)
    /\ pc' = IF chain = <<>> THEN "done" ELSE "return"
    /\ UNCHANGED <<routes, middleware, regErr, sharedHdrs, scope, chain, found,
                   prog, hpc, hres, resp, exc, body_, chunks, nrecv, bret, first, tasks>>

\* The entry call has returned ("done") or raised ("raised") to the transport.
Finish ==
    /\ pc \in {"done", "raised"}
    /\ pc' = "idle"
    /\ scope' = NoScope
    /\ chain' = <<>>
    /\ stage' = 0
    /\ found' = NoFound
    /\ prog' = ""
    /\ hpc' = ""
    /\ hres' = Return(PyNone)
    /\ resp' = NoResponse
    /\ exc' = NoException
    /\ body_' = BodyNone
    /\ chunks' = <<>>
    /\ nrecv' = 0
    /\ bret' = Encode("")
    /\ first' = NoFirst
    /\ sent' = <<>>
    /\ log' = <<>>
    /\ UNCHANGED <<routes, middleware, regErr, sharedHdrs, tasks>>

Next ==
    \/ Use
    \/ \E r \in Registrations : Add(r[1], r[2])
    \/ \E sc \in Scopes : Call(sc)
    \/ NonHttpStart
    \/ NonHttpBody
    \/ \E b \in MiddlewareBehaviours : MiddlewareCall(b)
    \/ MiddlewareReturn
    \/ EndpointFind
    \/ \E p \in SimplePrograms : CallSimpleHandler(p)
    \/ \E p \in BodyPrograms : CallBodyHandler(p)
    \/ BodyCall
    \/ \E msg \in InboundMessages : Receive(msg)
    \/ \E e \in ReceiveErrors : ReceiveRaises(e)
    \/ Resume
    \/ BuildResponse
    \/ SendStart
    \/ SendBody
    \/ Finish

Spec == Init /\ [][Next]_vars

TypeOK ==
    /\ pc \in {"idle", "nonhttp_start", "nonhttp_body", "app", "return", "call", "body",
               "receive", "resume", "returned", "send_start", "send_body", "done", "raised"}
    /\ Len(routes) <= MaxRoutes
    /\ Len(middleware) <= MaxMiddleware
    /\ Len(sharedHdrs) <= Len(SharedHeaders0) + MaxSharedUses
    /\ nrecv <= MaxReceives

(***************************************************************************)
(* The route table on its own: Router.add on any template and Router.find  *)
(* on any path, both drawn from every string over a small alphabet up to a *)
(* length, and a few longer ones.                                          *)
(***************************************************************************)
TemplateChars == {"/", "a", "{", "x", "}"}
PathChars == {"/", "a", "b", "\n"}

LongTemplates ==
    {<<"/", "{", "x", "}", "a">>,
     <<"{", "x", "}", "{", "a", "}">>,
     <<"/", "{", "x", "}", "/", "{", "a", "}">>,
     <<"/", "{", "x", "}", "/", "{", "x", "}">>}

LongPaths == {<<"/", "a", "/", "b">>, <<"/", "b", "a", "\n">>, <<"/", "a", "b", "/">>}

AllTemplates == SeqsUpTo(TemplateChars, MaxTemplateLen) \cup LongTemplates
AllPaths == SeqsUpTo(PathChars, MaxPathLen) \cup LongPaths

LookupInit ==
    /\ routes = <<>>
    /\ middleware = <<>>
    /\ regErr = NoRegistration
    /\ sharedHdrs = SharedHeaders0
    /\ pc = "idle"
    /\ scope \in {[type |-> "http", method |-> "get", path |-> p] : p \in AllPaths}
    /\ chain = <<>>
    /\ stage = 0
    /\ found = NoFound
    /\ prog = ""
    /\ hpc = ""
    /\ hres = Return(PyNone)
    /\ resp = NoResponse
    /\ exc = NoException
    /\ body_ = BodyNone
    /\ chunks = <<>>
    /\ nrecv = 0
    /\ bret = Encode("")
    /\ first = NoFirst
    /\ sent = <<>>
    /\ log = <<>>
    /\ tasks = NoTasks

\* Router.add of the first route.
Register(path) ==
    /\ routes = <<>>
    /\ regErr = NoRegistration
    /\ Add("GET", path)

\* Router.find(method, path) on the table.
Lookup ==
    /\ pc = "idle"
    /\ routes # <<>>
    /\ found' = RouterFind(routes, scope.method, scope.path)
    /\ pc' = "looked_up"
    /\ UNCHANGED <<routes, middleware, regErr, sharedHdrs, scope, chain, stage, prog,
                   hpc, hres, resp, exc, body_, chunks, nrecv, bret, first, sent, log, tasks>>

LookupNext ==
    \/ \E t \in AllTemplates : Register(t)
    \/ Lookup

LookupSpec == LookupInit /\ [][LookupNext]_vars

(***************************************************************************)
(* Properties.                                                             *)
(***************************************************************************)
Logged(e) == \E i \in 1..Len(log) : log[i].e = e

\* The handlers called so far in this entry call, in order.
Invoked == SelectSeq(log, LAMBDA ev : ev.e = "invoke")

InEntryCall == pc \notin {"idle", "looked_up"}

\* Method names compared without regard to case.
Lower(m) ==
    CASE m = "GET" -> "get"
      [] m = "POST" -> "post"
      [] OTHER -> m

SameMethod(m1, m2) == Lower(m1) = Lower(m2)

(***************************************************************************)
(* What a template stands for: path[j..] is template[i..] with every       *)
(* {name} replaced by one or more characters other than "/".               *)
(***************************************************************************)
RECURSIVE InstanceFrom(_, _, _, _)
InstanceFrom(template, i, path, j) ==
    IF i > Len(template) THEN j = Len(path) + 1
    ELSE IF template[i] = "{"
         THEN \E n \in 1..(Len(path) - j + 1) :
                 /\ \A k \in j..(j + n - 1) : path[k] # "/"
                 /\ InstanceFrom(template, Find(template, "}", i) + 1, path, j + n)
         ELSE /\ j <= Len(path)
              /\ path[j] = template[i]
              /\ InstanceFrom(template, i + 1, path, j + 1)

IsInstance(template, path) == InstanceFrom(template, 1, path, 1)

\* The template with every {name} replaced by params[name].
RECURSIVE Substitute(_, _, _)
Substitute(template, i, params) ==
    IF i > Len(template) THEN <<>>
    ELSE IF template[i] = "{"
         THEN LET j == Find(template, "}", i)
              IN  params[SubSeq(template, i + 1, j - 1)] \o Substitute(template, j + 1, params)
         ELSE <<template[i]>> \o Substitute(template, i + 1, params)

\* C10: a compiled template accepts a path if and only if the whole path is
\* the template with every placeholder replaced by a non-empty string without
\* "/", and on acceptance each placeholder name maps to the substring at its
\* position (substituting the captures into the template gives the path back).
C10_AcceptsExactlyInstances ==
    (pc = "looked_up") =>
        /\ (found.idx = 1) <=> IsInstance(routes[1].path, scope.path)
        /\ (found.idx = 1) => Substitute(routes[1].path, 1, found.params) = scope.path

\* The template "/a" has accepted the path "/a\n".
C10_TrailingNewlineAccepted ==
    /\ pc = "looked_up"
    /\ routes[1].path = <<"/", "a">>
    /\ scope.path = <<"/", "a", "\n">>
    /\ found.idx = 1

\* What does hold: C10 on every path that does not end in a newline.
C10_ExceptTrailingNewline ==
    (pc = "looked_up" /\ (scope.path = <<>> \/ scope.path[Len(scope.path)] # "\n")) =>
        /\ (found.idx = 1) <=> IsInstance(routes[1].path, scope.path)
        /\ (found.idx = 1) => Substitute(routes[1].path, 1, found.params) = scope.path

(***************************************************************************)
(* Properties of the entry call.                                           *)
(***************************************************************************)
IsPrefix(s, t) == Len(s) <= Len(t) /\ \A i \in 1..Len(s) : s[i] = t[i]

SentTypes == [i \in 1..Len(sent) |-> sent[i].type]

\* The request reached the dispatcher: endpoint ran its route lookup.
DispatcherReached == scope.type = "http" /\ Logged("find")

\* The entry call is over: it returned, or an exception left it.
CallOver == pc \in {"done", "raised"}

\* The routes whose method is the request's, compared without regard to case,
\* and whose matcher accepts the request's path.
MatchingRoutes ==
    {i \in 1..Len(routes) :
        /\ SameMethod(routes[i].method, scope.method)
        /\ RegexMatch(routes[i].regex, scope.path).ok}

FirstMatching ==
    IF MatchingRoutes = {} THEN 0
    ELSE CHOOSE i \in MatchingRoutes : \A k \in MatchingRoutes : i <= k

\* C4: when no registered route matches both method and path, the response is
\* 404 with the body "Not Found" and no handler is invoked.
C4_RouteMissIs404 ==
    (DispatcherReached /\ MatchingRoutes = {}) =>
        /\ Invoked = <<>>
        /\ prog = ""
        /\ pc \in {"send_start", "send_body", "return", "done"}
        /\ resp.status = 404
        /\ resp.body_bytes = [b |-> "Not Found"]
        /\ IsPrefix(SentTypes, <<"http.response.start", "http.response.body">>)
        /\ pc \in {"return", "done"} =>
              /\ Len(sent) = 2
              /\ sent[1].status = 404
              /\ sent[2].body = [b |-> "Not Found"]

\* A 404 has been sent for a path that a route registered under another
\* method accepts.
C4_MethodMismatchMiss ==
    /\ pc = "done"
    /\ DispatcherReached
    /\ MatchingRoutes = {}
    /\ \E i \in 1..Len(routes) : RegexMatch(routes[i].regex, scope.path).ok
    /\ Len(sent) = 2

\* C5: find returns the earliest-registered route whose method is the
\* request's, compared case-insensitively, and whose matcher accepts the path;
\* no other route's handler is invoked.
C5_FirstMatchWins ==
    DispatcherReached =>
        /\ found.idx = FirstMatching
        /\ Len(Invoked) <= 1
        /\ \A k \in 1..Len(Invoked) :
              FirstMatching # 0 /\ Invoked[k].id = routes[FirstMatching].handler

\* Two routes match a request whose method is written in lower case, and the
\* first one's handler has run.
C5_TwoRoutesMatch ==
    /\ pc = "done"
    /\ DispatcherReached
    /\ MatchingRoutes = {1, 2}
    /\ scope.method = "get"
    /\ Invoked = <<Event("invoke", 1)>>

\* C9: on a scope whose type is not "http" no middleware is called, no route is
\* looked up, no handler runs, and exactly the response start (404, no
\* headers) and then the body "Not Found" are sent.
C9_NonHttpBypass ==
    (InEntryCall /\ scope.type # "http") =>
        /\ \A i \in 1..Len(log) : log[i].e = "send"
        /\ found = NoFound
        /\ prog = ""
        /\ pc \in {"nonhttp_start", "nonhttp_body", "done"}
        /\ IsPrefix(sent, <<[type |-> "http.response.start", status |-> 404, headers |-> <<>>],
                            [type |-> "http.response.body", body |-> [b |-> "Not Found"]]>>)
        /\ Len(sent) = (CASE pc = "nonhttp_start" -> 0 [] pc = "nonhttp_body" -> 1 [] OTHER -> 2)

\* A websocket scope has been answered by an application that has routes and
\* middlewares.
C9_NonHttpAnswered ==
    /\ pc = "done"
    /\ scope.type = "websocket"
    /\ Len(middleware) = 2
    /\ Len(routes) >= 1
    /\ Len(sent) = 2

\* C8: with middlewares registered m1..mn, a request that reaches the
\* dispatcher has entered m1, ..., mn in that order before the dispatcher, and
\* when the call returns the middlewares have returned in the order mn, ..., m1.
C8_MiddlewareOrder ==
    LET n == Len(middleware)
        enters == SelectSeq(log, LAMBDA ev : ev.e = "enter")
        exits == SelectSeq(log, LAMBDA ev : ev.e = "exit")
    IN  DispatcherReached =>
            /\ Len(log) >= n + 1
            /\ \A i \in 1..n : log[i] = Event("enter", middleware[i])
            /\ log[n + 1].e = "find"
            /\ Len(enters) = n
            /\ pc = "done" =>
                  /\ Len(exits) = n
                  /\ \A k \in 1..n : log[Len(log) - n + k] = Event("exit", middleware[n + 1 - k])

\* A request went through two middlewares and the dispatcher, and came back.
C8_TwoMiddlewaresReturned ==
    /\ pc = "done"
    /\ DispatcherReached
    /\ Len(middleware) = 2
    /\ Len(sent) = 2

\* C7: after a first body() call has completed, a second one returns the same
\* bytes and makes no receive call, also when the body is empty.
C7_SecondBodyFromCache ==
    (prog = "body_twice" /\ first.set) =>
        /\ pc # "receive"
        /\ nrecv = first.nrecv
        /\ bret = first.val

\* The second body() call of a request with an empty body has returned.
C7_EmptyBodyReadTwice ==
    /\ prog = "body_twice"
    /\ pc = "done"
    /\ first.set
    /\ first.val = [b |-> ""]
    /\ first.nrecv >= 1

\* C3: an HTTPError with status s and detail d is answered with status s and
\* the JSON body {"detail": d}; created without a detail, d is "HTTP <s>".
C3_HttpErrorResponse ==
    (hres.kind = "raise" /\ hres.exc.cls = "HTTPError") =>
        /\ pc # "raised"
        /\ pc \in {"return", "done"} =>
              /\ Len(sent) = 2
              /\ sent[1].status = hres.exc.status
              /\ sent[2].body = [b |-> "{\"detail\": \"" \o hres.exc.detail \o "\"}"]
        /\ (pc = "done" /\ prog = "http_error_default") =>
              sent[1].status = 400 /\ sent[2].body = [b |-> "{\"detail\": \"HTTP 400\"}"]
        /\ (pc = "done" /\ prog = "http_error") =>
              sent[1].status = 404 /\ sent[2].body = [b |-> "{\"detail\": \"gone\"}"]

\* An HTTPError raised without a detail has been answered.
C3_DefaultDetailSent ==
    /\ pc = "done"
    /\ prog = "http_error_default"
    /\ Len(sent) = 2

\* The handler raised something that "except HTTPError" does not take.
HandlerRaisedOther == hres.kind = "raise" /\ hres.exc.cls # "HTTPError"

TwoSendsInOrder == SentTypes = <<"http.response.start", "http.response.body">>

FreshResponse == EndpointResponse(RunSimple(prog, SharedHeaders0).hres).resp

\* C6: handling a request leaves the route table and the middleware list as
\* they were, and a later request is sent the response it would have been sent
\* had the earlier one never been handled.
C6_LaterResponseUnaffected ==
    (pc = "done" /\ prog \in SimplePrograms) =>
        sent = <<StartMessage(FreshResponse), BodyMessage(FreshResponse)>>

\* The part of C6 about the application's own state: no step of an entry call
\* changes the route table or the middleware list.
C6_AppStateUnchanged == [][InEntryCall => UNCHANGED appVars]_vars

\* The second entry call has been answered with one header more than the first.
C6_SecondResponseDiffers ==
    /\ pc = "done"
    /\ prog = "shared_headers"
    /\ Len(sent) = 2
    /\ Len(sent[1].headers) = 3

(***************************************************************************)
(* Properties of registration.                                             *)
(***************************************************************************)
\* The template has a "{" with no "}" after it.
Unterminated(template) ==
    \E i \in 1..Len(template) :
        /\ template[i] = "{"
        /\ \A j \in (i + 1)..Len(template) : template[j] # "}"

\* C11: a registration whose template has a "{" with no later "}" raises to
\* the caller and leaves the route table as it was; no route with such a
\* template is ever in the table for a request to meet.
C11_UnterminatedFailsAtRegistration ==
    /\ Unterminated(regErr.path) =>
          /\ regErr.err = "ValueError"
          /\ routes = regErr.before
    /\ \A i \in 1..Len(routes) : ~Unterminated(routes[i].path)

\* A registration has failed on "/{x}{" with a route already in the table.
C11_FailedAfterFirstRoute ==
    /\ pc = "idle"
    /\ regErr.err = "ValueError"
    /\ regErr.path = <<"/", "{", "x", "}", "{">>
    /\ regErr.before # <<>>
    /\ Len(routes) = 1

(***************************************************************************)
(* Request.headers and Request.query_params (lines 28-46).  The scope is a *)
(* mapping: keys says which keys it carries, and scope[key] on a key it    *)
(* does not carry raises KeyError.  Header names and values are bytes      *)
(* holding text; a query string is bytes holding a sequence of characters, *)
(* or None.  A dict is the sequence of its <<key, value>> items in         *)
(* insertion order.                                                        *)
(***************************************************************************)
KeyError(key) == [cls |-> "KeyError", status |-> 0, detail |-> key]

\* str.lower() on the header names of the model.
StrLower(name) ==
    CASE name = "Host" -> "host"
      [] name = "X-A" -> "x-a"
      [] OTHER -> name

\* d[k] = v on a dict: a key already present keeps its place and takes the
\* new value.
DictSet(items, k, v) ==
    IF \E i \in 1..Len(items) : items[i][1] = k
    THEN [i \in 1..Len(items) |-> IF items[i][1] = k THEN <<k, v>> ELSE items[i]]
    ELSE Append(items, <<k, v>>)

\* Line 30: the dict comprehension over the header pairs.
RECURSIVE HeaderItems(_, _, _)
HeaderItems(pairs, i, items) ==
    IF i > Len(pairs) THEN items
    ELSE HeaderItems(pairs, i + 1,
                     DictSet(items, StrLower(Decode(pairs[i][1])), Decode(pairs[i][2])))

RequestHeaders(sc) ==
    IF "Headers" \notin sc.keys
    THEN Raise(KeyError("Headers"))
    ELSE Return(PyDict(HeaderItems(sc.Headers, 1, <<>>)))

\* str.split(sep): the pieces between the occurrences of sep.
RECURSIVE Split(_, _)
Split(str, sep) ==
    LET j == Find(str, sep, 1)
    IN  IF j = 0 THEN <<str>>
        ELSE <<SubSeq(str, 1, j - 1)>> \o Split(SubSeq(str, j + 1, Len(str)), sep)

\* Lines 38-45 without the "continue" of lines 39-40.
RECURSIVE ParsePairsKeepingEmpty(_, _, _)
ParsePairsKeepingEmpty(pairs, i, params) ==
    IF i > Len(pairs) THEN params
    ELSE LET pair == pairs[i]
             j == Find(pair, "=", 1)
             k == IF j # 0 THEN SubSeq(pair, 1, j - 1) ELSE pair
             v == IF j # 0 THEN SubSeq(pair, j + 1, Len(pair)) ELSE <<>>
         IN  ParsePairsKeepingEmpty(pairs, i + 1, DictSet(params, k, v))

\* Lines 38-45: the loop over the pieces.
RECURSIVE ParsePairs(_, _, _)
ParsePairs(pairs, i, params) ==
    IF i > Len(pairs) THEN params
    ELSE LET pair == pairs[i]
             j == Find(pair, "=", 1)
             k == IF j # 0 THEN SubSeq(pair, 1, j - 1) ELSE pair
             v == IF j # 0 THEN SubSeq(pair, j + 1, Len(pair)) ELSE <<>>
         IN  IF pair = <<>>
             THEN ParsePairs(pairs, i + 1, params)
             ELSE ParsePairs(pairs, i + 1, DictSet(params, k, v))

RequestQueryParams(sc) ==
    LET got == IF "query_string" \in sc.keys THEN sc.query_string ELSE PyBytes(<<>>)
        raw == IF got.t = "none" \/ got.v = <<>> THEN PyBytes(<<>>) ELSE got
        qs == raw.v
    IN  IF qs = <<>>
        THEN Return(PyDict(<<>>))
        ELSE Return(PyDict(ParsePairs(Split(qs, "&"), 1, <<>>)))

(***************************************************************************)
(* The Request accessors on their own: a Request over any scope of a       *)
(* bounded set, and up to two calls of one accessor on it.                 *)
(***************************************************************************)
HeaderNames == {"Host", "host", "X-A"}
HeaderValues == {"u", "v"}
QueryChars == {"a", "b", "=", "&"}

HeaderPairs == {<<Encode(n), Encode(v)>> : n \in HeaderNames, v \in HeaderValues}
HeaderLists == SeqsUpTo(HeaderPairs, MaxHeaders)

ExampleQuery == <<"a", "=", "1", "&", "b", "=", "&", "c">>
QueryStrings == SeqsUpTo(QueryChars, MaxQueryLen) \cup {ExampleQuery}

\* The keys of an HTTP scope, and those of a transport that writes the header
\* list under "Headers".
HttpKeys == {"type", "method", "path", "headers", "query_string"}
CapitalisedKeys == {"type", "method", "path", "Headers", "query_string"}

HttpScope(keys, hs, q) ==
    [type |-> "http", method |-> "GET", path |-> <<"/">>, keys |-> keys,
     headers |-> hs, Headers |-> hs, query_string |-> q]

RequestScopes ==
    {HttpScope(keys, hs, PyBytes(<<>>)) : keys \in {HttpKeys, CapitalisedKeys}, hs \in HeaderLists}
    \cup {HttpScope(HttpKeys, <<>>, PyBytes(q)) : q \in QueryStrings}
    \cup {HttpScope(HttpKeys, <<>>, PyNone),
          HttpScope(HttpKeys \ {"query_string"}, <<>>, PyNone)}

RequestInit ==
    /\ routes = <<>>
    /\ middleware = <<>>
    /\ regErr = NoRegistration
    /\ sharedHdrs = SharedHeaders0
    /\ pc = "idle"
    /\ scope \in RequestScopes
    /\ chain = <<>>
    /\ stage = 0
    /\ found = NoFound
    /\ prog = ""
    /\ hpc = ""
    /\ hres = Return(PyNone)
    /\ resp = NoResponse
    /\ exc = NoException
    /\ body_ = BodyNone
    /\ chunks = <<>>
    /\ nrecv = 0
    /\ bret = Encode("")
    /\ first = NoFirst
    /\ sent = <<>>
    /\ log = <<>>
    /\ tasks = NoTasks

\* One call of an accessor.  Up to two calls of the same accessor are made;
\* the second remembers in first what the first returned.
GetHeaders ==
    /\ pc \in {"idle", "accessed"}
    /\ pc = "accessed" => prog = "headers"
    /\ prog' = "headers"
    /\ hres' = RequestHeaders(scope)
    /\ first' = IF pc = "accessed" THEN [val |-> hres, nrecv |-> 0, set |-> TRUE] ELSE first
    /\ pc' = IF pc = "idle" THEN "accessed" ELSE "accessed_twice"
    /\ UNCHANGED <<routes, middleware, regErr, sharedHdrs, scope, chain, stage, found,
                   hpc, resp, exc, body_, chunks, nrecv, bret, sent, log, tasks>>

GetQueryParams ==
    /\ pc \in {"idle", "accessed"}
    /\ pc = "accessed" => prog = "query_params"
    /\ prog' = "query_params"
    /\ hres' = RequestQueryParams(scope)
    /\ first' = IF pc = "accessed" THEN [val |-> hres, nrecv |-> 0, set |-> TRUE] ELSE first
    /\ pc' = IF pc = "idle" THEN "accessed" ELSE "accessed_twice"
    /\ UNCHANGED <<routes, middleware, regErr, sharedHdrs, scope, chain, stage, found,
                   hpc, resp, exc, body_, chunks, nrecv, bret, sent, log, tasks>>

RequestNext ==
    \/ GetHeaders
    \/ GetQueryParams

RequestSpec == RequestInit /\ [][RequestNext]_vars

(***************************************************************************)
(* Properties of the Request accessors.                                    *)
(***************************************************************************)
Accessed(p) == pc \in {"accessed", "accessed_twice"} /\ prog = p

\* A dict as the mapping it is.
AsMapping(items) ==
    [k \in {items[i][1] : i \in 1..Len(items)} |->
        items[CHOOSE i \in 1..Len(items) : items[i][1] = k][2]]

\* The mapping from each lowercased header name to the value of its last
\* occurrence in the header list.
LastValues(hs) ==
    [n \in {StrLower(hs[i][1].b) : i \in 1..Len(hs)} |->
        LET last == CHOOSE i \in 1..Len(hs) :
                        /\ StrLower(hs[i][1].b) = n
                        /\ \A j \in (i + 1)..Len(hs) : StrLower(hs[j][1].b) # n
        IN  hs[last][2].b]

\* C12: on a scope that carries the header list under "headers",
\* Request.headers returns the mapping from each lowercased name to its last
\* value, and the same on a second call.
C12_HeadersLowercasedLastWins ==
    (Accessed("headers") /\ "headers" \in scope.keys) =>
        /\ hres.kind = "return"
        /\ AsMapping(hres.val.v) = LastValues(scope.headers)
        /\ first.set => hres = first.val

\* Request.headers has raised KeyError on a scope with two headers under
\* "headers".
C12_HeadersRaisesKeyError ==
    /\ Accessed("headers")
    /\ "headers" \in scope.keys
    /\ Len(scope.headers) = 2
    /\ hres = Raise(KeyError("Headers"))

\* What does hold: the mapping of C12 on a scope that carries the header list
\* under "Headers".
C12_HoldsUnderCapitalisedKey ==
    (Accessed("headers") /\ "Headers" \in scope.keys) =>
        /\ hres.kind = "return"
        /\ AsMapping(hres.val.v) = LastValues(scope.Headers)
        /\ first.set => hres = first.val

(***************************************************************************)
(* Properties of the dispatcher's result handling.                         *)
(***************************************************************************)
\* The handler of this entry call returned a value of one of the given types.
HandlerReturned(types) == hres.kind = "return" /\ hres.val.t \in types

Answered == pc \in {"return", "done"} /\ Len(sent) = 2

\* C13: a Response returned by the handler is sent with its own status,
\* headers and body; a returned dict or list is sent as status 200, its JSON
\* text as body and the one header content-type: application/json;
\* charset=utf-8.
C13_ResponseAsIsValueAsJson ==
    /\ (pc \in {"send_start", "send_body", "return", "done"} /\ HandlerReturned({"Response"})) =>
          LET r == hres.val.v
          IN  /\ resp = r
              /\ pc \in {"return", "done"} =>
                    /\ Len(sent) = 2
                    /\ sent[1].type = "http.response.start"
                    /\ sent[1].status = r.status
                    /\ Len(sent[1].headers) = Len(r.headers)
                    /\ \A i \in 1..Len(r.headers) :
                          sent[1].headers[i] = <<[b |-> r.headers[i][1]], [b |-> r.headers[i][2]]>>
                    /\ sent[2] = [type |-> "http.response.body", body |-> r.body_bytes]
    /\ (pc \in {"return", "done"} /\ HandlerReturned({"dict", "list"})) =>
          /\ Len(sent) = 2
          /\ sent[1] = [type |-> "http.response.start", status |-> 200,
                        headers |-> <<<<[b |-> "content-type"],
                                        [b |-> "application/json; charset=utf-8"]>>>>]
          /\ sent[2].type = "http.response.body"
          /\ prog = "dict" => sent[2].body = [b |-> "{\"k\": 1}"]
          /\ prog = "list" => sent[2].body = [b |-> "[1, 2]"]
          /\ prog = "echo" => sent[2].body = [b |-> "{\"you_sent\": {\"k\": 1}}"]
          /\ prog \in {"dict", "list", "echo"}

\* echo has answered a body that arrived as {"k": 1}.
C13_EchoAnswered ==
    /\ pc = "done"
    /\ prog = "echo"
    /\ HandlerReturned({"dict"})
    /\ sent[1].status = 200
    /\ sent[2].body = [b |-> "{\"you_sent\": {\"k\": 1}}"]

(***************************************************************************)
(* What the query string stands for, told by positions: a piece starts at  *)
(* the beginning or right after an "&" and runs to the next "&" or the end.*)
(***************************************************************************)
PieceStarts(qs) == {a \in 1..(Len(qs) + 1) : a = 1 \/ qs[a - 1] = "&"}

PieceAt(qs, a) ==
    LET ends == {e \in a..(Len(qs) + 1) : e = Len(qs) + 1 \/ qs[e] = "&"}
        e == CHOOSE x \in ends : \A y \in ends : x <= y
    IN  SubSeq(qs, a, e - 1)

\* The text before the first "=" of a piece, and the text after it.
KeyOf(piece) ==
    IF \E i \in 1..Len(piece) : piece[i] = "="
    THEN SubSeq(piece, 1, Find(piece, "=", 1) - 1)
    ELSE piece

ValueOf(piece) ==
    IF \E i \in 1..Len(piece) : piece[i] = "="
    THEN SubSeq(piece, Find(piece, "=", 1) + 1, Len(piece))
    ELSE <<>>

\* The mapping from the key of each piece starting in starts to the value of
\* the last such piece with that key.
PiecesMapping(qs, starts) ==
    [k \in {KeyOf(PieceAt(qs, a)) : a \in starts} |->
        LET last == CHOOSE a \in starts :
                        /\ KeyOf(PieceAt(qs, a)) = k
                        /\ \A b \in starts : KeyOf(PieceAt(qs, b)) = k => b <= a
        IN  ValueOf(PieceAt(qs, last))]

\* The raw query string of the scope: empty when the key is missing or None.
RawQuery ==
    IF "query_string" \in scope.keys /\ scope.query_string.t = "bytes"
    THEN scope.query_string.v
    ELSE <<>>

\* C14 as claimed: the result maps the key of every piece of the raw string
\* to the value of the last piece with that key (the text after the first "=",
\* empty when the piece has none), and a second call returns the same.
C14_EveryPieceMapped ==
    Accessed("query_params") =>
        /\ hres.kind = "return"
        /\ AsMapping(hres.val.v) =
              IF RawQuery = <<>> THEN <<>>
              ELSE PiecesMapping(RawQuery, PieceStarts(RawQuery))
        /\ first.set => hres = first.val

\* C14 as amended: the same over the pieces that are not empty; an empty
\* piece (from "&&", or an "&" at either end) adds no key.
C14_NonEmptyPiecesMapped ==
    Accessed("query_params") =>
        /\ hres.kind = "return"
        /\ AsMapping(hres.val.v) =
              PiecesMapping(RawQuery, {a \in PieceStarts(RawQuery) : PieceAt(RawQuery, a) # <<>>})
        /\ first.set => hres = first.val
        /\ RawQuery = ExampleQuery =>
              AsMapping(hres.val.v) =
                  (<<"a">> :> <<"1">>) @@ (<<"b">> :> <<>>) @@ (<<"c">> :> <<>>)

\* query_params has been read twice on "a=1&b=&c".
C14_ExampleParsedTwice ==
    /\ pc = "accessed_twice"
    /\ prog = "query_params"
    /\ RawQuery = ExampleQuery
    /\ Len(hres.val.v) = 3

(***************************************************************************)
(* Request.body and Request.json called by two callers of one handler that *)
(* run side by side, as under asyncio.gather(req.body(), req.json()).  A   *)
(* coroutine runs without interruption from one await to the next, so a    *)
(* call is one step up to its first "await self._receive()" (lines 49-54)  *)
(* and one step from each message to the next await or to the return       *)
(* (lines 55-62, and lines 66-68 for json).  Caller 1 is the one that      *)
(* calls first.  The transport hands each message to one pending receive.  *)
(***************************************************************************)
AccessorKinds == {"body", "json"}

\* What the accessor hands to its caller once body() has returned b.
Outcome(kind, b) ==
    IF kind = "json" THEN RequestJson(b) ELSE [raised |-> FALSE, val |-> PyBytes(Decode(b))]

BodyInit ==
    /\ routes = <<Route("POST", <<"/", "a">>, 1).route>>
    /\ middleware = <<>>
    /\ regErr = NoRegistration
    /\ sharedHdrs = SharedHeaders0
    /\ pc = "gather"
    /\ scope = [type |-> "http", method |-> "POST", path |-> <<"/", "a">>]
    /\ chain = <<>>
    /\ stage = 1
    /\ found = [idx |-> 1, params |-> <<>>]
    /\ prog = "gather"
    /\ hpc = ""
    /\ hres = Return(PyNone)
    /\ resp = NoResponse
    /\ exc = NoException
    /\ body_ = BodyNone
    /\ chunks = <<>>
    /\ nrecv = 0
    /\ bret = Encode("")
    /\ first = NoFirst
    /\ sent = <<>>
    /\ log = <<Event("find", 0), Event("invoke", 1)>>
    /\ tasks = NoTasks

\* Caller t calls body() or json(): lines 49-54 up to the first await, or
\* line 62 at once when the body is cached.
TaskCall(t, kind) ==
    /\ pc = "gather"
    /\ tasks[t].pc = "start"
    /\ t = 2 => tasks[1].pc # "start"
    /\ log' = Append(log, Event("call", t))
    /\ IF MustDrain(body_)
       THEN tasks' = [tasks EXCEPT ![t] = [pc |-> "receive", kind |-> kind, chunks |-> <<>>,
                                           ret |-> Encode(""), out |-> NoTask.out]]
       ELSE tasks' = [tasks EXCEPT ![t] = [pc |-> "done", kind |-> kind, chunks |-> <<>>,
                                           ret |-> body_.val,
                                           out |-> Outcome(kind, body_.val)]]
    /\ UNCHANGED <<routes, middleware, regErr, sharedHdrs, pc, scope, chain, stage, found,
                   prog, hpc, hres, resp, exc, body_, chunks, nrecv, bret, first, sent>>

\* The receive() that caller t awaits returns msg: one turn of the loop.
TaskReceive(t, msg) ==
    /\ pc = "gather"
    /\ tasks[t].pc = "receive"
    \* the model's bound, as in Receive
    /\ MsgGet(msg, "more_body", FALSE) => nrecv + 1 < MaxReceives
    /\ nrecv' = nrecv + 1
    /\ log' = Append(log, [e |-> "receive", id |-> t, msg |-> msg])
    /\ LET isBody == msg.type = "http.request"
           chunks1 == IF isBody
                      THEN Append(tasks[t].chunks, MsgGet(msg, "body", Encode("")))
                      ELSE tasks[t].chunks
           more == IF isBody THEN MsgGet(msg, "more_body", FALSE) ELSE FALSE
       IN  IF more
           THEN /\ tasks' = [tasks EXCEPT ![t].chunks = chunks1]
                /\ body_' = body_
           ELSE /\ body_' = BodyCached(JoinBytes(chunks1))
                /\ tasks' = [tasks EXCEPT ![t] = [pc |-> "done", kind |-> tasks[t].kind,
                                                  chunks |-> chunks1,
                                                  ret |-> JoinBytes(chunks1),
                                                  out |-> Outcome(tasks[t].kind,
                                                                  JoinBytes(chunks1))]]
    /\ UNCHANGED <<routes, middleware, regErr, sharedHdrs, pc, scope, chain, stage, found,
                   prog, hpc, hres, resp, exc, chunks, bret, first, sent>>

BodyNext ==
    \/ \E t \in Callers, kind \in AccessorKinds : TaskCall(t, kind)
    \/ \E t \in Callers, msg \in InboundMessages : TaskReceive(t, msg)

BodySpec == BodyInit /\ [][BodyNext]_vars

\* The transport goes on delivering to the first caller's pending receive;
\* under the bound the messages announcing more body run out.
BodyLiveSpec ==
    /\ BodyInit
    /\ [][BodyNext]_vars
    /\ WF_vars(\E msg \in InboundMessages : TaskReceive(1, msg))

(***************************************************************************)
(* Properties of body() and json().                                        *)
(***************************************************************************)
\* The messages that the receive calls of caller t returned, in order.
ReceivedBy(t) ==
    LET evs == SelectSeq(log, LAMBDA ev : ev.e = "receive" /\ ev.id = t)
    IN  [i \in 1..Len(evs) |-> evs[i].msg]

\* A message that ends the body: of another type than "http.request", or
\* with more_body false or absent.
Terminal(msg) ==
    \/ msg.type # "http.request"
    \/ "more_body" \notin msg.keys
    \/ ~msg.more_body

\* The body chunks of the "http.request" messages of msgs, one after another.
RECURSIVE BodiesText(_, _)
BodiesText(msgs, i) ==
    IF i > Len(msgs) THEN ""
    ELSE (IF msgs[i].type = "http.request" /\ "body" \in msgs[i].keys
          THEN msgs[i].body.b ELSE "")
         \o BodiesText(msgs, i + 1)

\* Caller 2 called while caller 1's call had not returned.
Overlapped ==
    \E k \in 1..Len(log) :
        /\ log[k] = Event("call", 2)
        /\ ~\E i \in 1..(k - 1) :
               log[i].e = "receive" /\ log[i].id = 1 /\ Terminal(log[i].msg)

DrainedOnceSameBytes ==
    /\ Cardinality({t \in Callers : ReceivedBy(t) # <<>>}) <= 1
    /\ \A t, u \in Callers :
          (tasks[t].pc = "done" /\ tasks[u].pc = "done") => tasks[t].ret = tasks[u].ret

\* C15: whatever the interleaving of two body()/json() calls on a request,
\* overlapping ones included, at most one of them calls receive and both
\* return the same bytes.
C15_DrainedOnceSameBytes == pc = "gather" => DrainedOnceSameBytes

\* Both callers drained: the first was handed the body [1, 2], the second,
\* a json() that started meanwhile, the disconnect, and returned b"".
C15_BothDrainedDifferentBytes ==
    /\ pc = "gather"
    /\ Overlapped
    /\ tasks[1].pc = "done"
    /\ tasks[2].pc = "done"
    /\ tasks[2].kind = "json"
    /\ tasks[1].ret = [b |-> "[1, 2]"]
    /\ tasks[2].ret = [b |-> ""]
    /\ ReceivedBy(2) # <<>>

\* What does hold: C15 for calls that do not overlap.
C15_HoldsWithoutOverlap == (pc = "gather" /\ ~Overlapped) => DrainedOnceSameBytes

FirstCallDrainsToTerminal ==
    LET R == ReceivedBy(1)
    IN  /\ \A i \in 1..(Len(R) - 1) : ~Terminal(R[i])
        /\ tasks[1].pc = "start" => R = <<>>
        /\ tasks[1].pc = "receive" => \A i \in 1..Len(R) : ~Terminal(R[i])
        /\ tasks[1].pc = "done" =>
              /\ R # <<>>
              /\ Terminal(R[Len(R)])
              /\ tasks[1].ret = [b |-> BodiesText(R, 1)]

\* C16: the first body() call returns the chunks of the "http.request"
\* messages it received, joined in arrival order, up to and including the
\* first with more_body false or absent, or up to the first message of another
\* type; it makes no receive call after that message; and, the stream
\* delivering such a message, it returns.
C16_FirstCallDrainsToTerminal ==
    /\ [](pc = "gather" => FirstCallDrainsToTerminal)
    /\ ((pc = "gather" /\ tasks[1].pc = "receive") ~> (tasks[1].pc = "done"))

\* The first call has returned two chunks in the order they arrived.
C16_TwoChunksJoined ==
    /\ pc = "gather"
    /\ tasks[1].pc = "done"
    /\ Len(ReceivedBy(1)) = 2
    /\ tasks[1].ret = [b |-> "[1, 2]{\"k\": 1}"]

(***************************************************************************)
(* Properties of the course of one request.                                *)
(***************************************************************************)
\* What endpoint did so far: the lookup, the handler call and the sends.
Core == SelectSeq(log, LAMBDA ev : ev.e \in {"find", "invoke", "send"})

CoreKinds == [i \in 1..Len(Core) |-> Core[i].e]

\* The calls a request makes in all, on a hit and on a miss of the lookup.
FullCourse ==
    IF found.idx = 0
    THEN <<"find", "send", "send">>
    ELSE <<"find", "invoke", "send", "send">>

\* The calls made by a request that is in the given state of the dispatcher's
\* state machine: Routing is over with the lookup, Dispatching is the handler
\* call and the settling of its outcome, Responding the two sends.
InOrder ==
    /\ pc = "call" => CoreKinds = <<"find">>
    /\ pc \in {"body", "receive", "resume", "returned"} => CoreKinds = <<"find", "invoke">>
    /\ pc = "send_start" => CoreKinds = SubSeq(FullCourse, 1, Len(FullCourse) - 2)
    /\ pc = "send_body" => CoreKinds = SubSeq(FullCourse, 1, Len(FullCourse) - 1)
    /\ pc \in {"return", "done"} => CoreKinds = FullCourse

Entered == SelectSeq(log, LAMBDA ev : ev.e = "enter")

\* C18: the dispatcher runs only after every registered middleware has been
\* entered and has called on; when a middleware returns without calling on,
\* there is no lookup, no handler call and no message sent by the core; when a
\* middleware raises, nothing is sent and the exception ends the entry call
\* uncaught.
C18_MiddlewareGatesDispatcher ==
    (InEntryCall /\ scope.type = "http") =>
        /\ Logged("find") =>
              /\ Len(Entered) = Len(middleware)
              /\ exc # MiddlewareError
        /\ (pc \in {"return", "done"} /\ ~Logged("find")) =>
              /\ Len(Entered) >= 1
              /\ Invoked = <<>>
              /\ found = NoFound
              /\ ~Logged("send")
              /\ sent = <<>>
        /\ exc = MiddlewareError =>
              /\ pc = "raised"
              /\ ~Logged("find")
              /\ Invoked = <<>>
              /\ ~Logged("send")
              /\ sent = <<>>

\* The second of two middlewares returned without calling on, and the entry
\* call has returned through the first with nothing looked up or sent.
C18_SecondMiddlewareShortCircuited ==
    /\ pc = "done"
    /\ scope.type = "http"
    /\ Len(routes) >= 1
    /\ log = <<Event("enter", 1), Event("enter", 2), Event("exit", 2), Event("exit", 1)>>
    /\ sent = <<>>

(***************************************************************************)
(* Properties of templates that repeat a placeholder name.                 *)
(***************************************************************************)
\* The placeholder names of a template, in order.
RECURSIVE NamesFrom(_, _)
NamesFrom(template, i) ==
    IF i > Len(template) THEN <<>>
    ELSE IF template[i] = "{"
         THEN LET j == Find(template, "}", i)
              IN  IF j = 0 THEN <<>>
                  ELSE <<SubSeq(template, i + 1, j - 1)>> \o NamesFrom(template, j + 1)
         ELSE NamesFrom(template, i + 1)

\* A template whose only peculiarity is that a placeholder name comes twice.
RepeatsAName(template) ==
    LET names == NamesFrom(template, 1)
    IN  /\ ~Unterminated(template)
        /\ \A i \in 1..Len(names) : IsIdentifier(names[i])
        /\ \E i, j \in 1..Len(names) : i < j /\ names[i] = names[j]

\* C19: registering a template that repeats a placeholder name succeeds, and
\* on a matching path each name maps to what its last occurrence captured.
C19_RepeatedNameLaterWins ==
    RepeatsAName(regErr.path) =>
        /\ regErr.err = "none"
        /\ Len(routes) = 1
        /\ (pc = "looked_up" /\ found.idx = 1) =>
              LET names == NamesFrom(routes[1].path, 1)
                  caps == RegexMatch(routes[1].regex, scope.path).caps
              IN  \A i \in 1..Len(names) :
                      (\A j \in (i + 1)..Len(names) : names[j] # names[i]) =>
                          found.params[names[i]] = caps[i]

\* Registering "/{x}/{x}" has raised re.error and the table is empty.
C19_RepeatedNameRejected ==
    /\ regErr.err = "re.error"
    /\ regErr.path = <<"/", "{", "x", "}", "/", "{", "x", "}">>
    /\ routes = <<>>

(***************************************************************************)
(* Properties of the header list a caller hands to Response.               *)
(***************************************************************************)
\* C20: building a Response, directly or through Response.json, leaves the
\* caller's header list as it was, and a handler that passes the same list on
\* every request sends the same number of headers every time.
C20_CallerListUnchanged ==
    /\ sharedHdrs = SharedHeaders0
    /\ (pc = "done" /\ prog = "shared_headers") =>
          Len(sent[1].headers) = Len(SharedHeaders0) + 1

\* After two requests the handler's own list holds two content-type headers
\* more than it was created with.
C20_CallerListGrew ==
    /\ pc = "idle"
    /\ Len(sharedHdrs) = Len(SharedHeaders0) + 2
    /\ sharedHdrs[2][1] = "content-type"
    /\ sharedHdrs[3][1] = "content-type"
====
